---- MODULE Spec2Model ----
(***************************************************************************)
(* Multi-tenant routing and template distribution of the compliance        *)
(* template service: the thread-local tenant binding and ComplianceRouter  *)
(* (template_service/database_router.py) and the template distribution    *)
(* engine (template_service/tenant_utils.py) working on the template       *)
(* catalog (templates/models.py) and the company copies                    *)
(* (company_compliance/models.py).                                         *)
(***************************************************************************)
EXTENDS Integers, Sequences, FiniteSets, TLC

(* ------------------------------ bounds --------------------------------- *)

\* number of distribute calls made in one behaviour
MaxCalls == 3
\* number of database errors (outages) the environment injects in one behaviour
MaxFaults == 1
\* binding operations made by the threads of the binding specification
MaxOps == 4
\* calls of register_tenant_database_connection
MaxRegs == 3
\* requests served by a thread
MaxReqs == 3
\* posts to the internal endpoints
MaxPosts == 2

(* --------------------------- fixed universe ---------------------------- *)

Threads == {1, 2}
Tenants == {"techcorp", "democorp"}
\* Python's None
None == "None"

FrameworkIds == {"fw-1", "fw-2"}
ControlIds == {"ctl-1", "ctl-2"}

\* Framework rows of the catalog: name is unique, (name, version) is unique
FrameworkRow ==
  [f \in FrameworkIds |->
     IF f = "fw-1" THEN [name |-> "SOX", version |-> "2024.1"]
                   ELSE [name |-> "ISO27001", version |-> "2022.1"]]

\* Domain -> Framework, Category -> Domain, Subcategory -> Category
Domain == [d \in {"dom-1", "dom-2"} |-> IF d = "dom-1" THEN "fw-1" ELSE "fw-2"]
Category == [c \in {"cat-1", "cat-2"} |-> IF c = "cat-1" THEN "dom-1" ELSE "dom-2"]
Subcategory == [s \in {"sub-1", "sub-2"} |-> IF s = "sub-1" THEN "cat-1" ELSE "cat-2"]

\* control_code of each template Control (unique)
ControlCode == [k \in ControlIds |-> IF k = "ctl-1" THEN "AC-001" ELSE "CM-001"]

\* position of a framework name in the database's collation
NameRank(n) == IF n = "ISO27001" THEN 1 ELSE 2

\* the fields of company_compliance.CompanyControl
CompanyControlFields ==
  {"id", "subcategory", "control_code", "title", "description", "objective",
   "template_control_id", "is_customized", "custom_description",
   "custom_objective", "custom_questions", "control_type", "frequency",
   "risk_level", "is_active", "sort_order"}

\* Django app label of each model the router is asked about
app_label(model) ==
  CASE model \in {"Framework", "Domain", "Category", "Subcategory", "Control",
                  "AssessmentQuestion", "EvidenceRequirement"} -> "templates"
    [] model \in {"CompanyFramework", "CompanyDomain", "CompanyCategory",
                  "CompanySubcategory", "CompanyControl", "ControlAssignment",
                  "TenantUser"}
         -> "company_compliance"
    [] OTHER -> "auth"

Models == {"Framework", "Domain", "Category", "Subcategory", "Control",
           "AssessmentQuestion", "EvidenceRequirement",
           "CompanyFramework", "CompanyDomain", "CompanyCategory",
           "CompanySubcategory", "CompanyControl", "ControlAssignment",
           "TenantUser", "User"}

\* the models of the company_compliance app, which live in tenant databases
CompanyModels == {m \in Models : app_label(m) = "company_compliance"}

TemplateModels == {m \in Models : app_label(m) = "templates"}

\* alias of a tenant's database
Alias(t) == t \o "_compliance_db"

Aliases == {"default"} \cup {Alias(t) : t \in Tenants}

(* ------------------------------- state --------------------------------- *)

VARIABLES
  Framework,        \* central DB: framework id -> [is_active]
  Control,          \* central DB: control id -> [subcategory, is_active]
  CompanyFramework, \* alias -> sequence of company framework rows
  CompanyControl,   \* alias -> sequence of company control rows
  databases,        \* connections.databases: the registered aliases
  tenant,           \* _thread_locals.tenant of each thread
  pc,               \* position of each thread
  call,             \* arguments and locals of the distribute call of each thread
  hist,             \* what each distribute call did so far (observation only)
  priorFull,        \* tenants for which a distribute(T, None) ran without a failure
  calls,            \* number of distribute calls started
  faults,           \* number of database errors injected
  ctx,              \* what each thread did with its binding (observation only)
  reg,              \* register_tenant_database_connection of each thread
  service,          \* the credential service: calls received, registrations made
  req,              \* the request each thread is handling
  ControlAssignment, \* alias -> sequence of control assignment rows
  budget,           \* binding operations, registrations, requests and posts started
  internal          \* the internal token of the settings and the internal
                    \* endpoint call of each thread

vars == <<Framework, Control, CompanyFramework, CompanyControl, databases,
          tenant, pc, call, hist, priorFull, calls, faults,
          ctx, reg, service, req, ControlAssignment, budget, internal>>

\* the state outside the distribution engine
outside == <<ctx, reg, service, req, ControlAssignment, budget, internal>>

(* ------------------- thread-local tenant binding ----------------------- *)

\* truthiness of a tenant slug
Truthy(t) == t # None /\ t # ""

get_current_tenant(th) == tenant[th]

set_current_tenant_once(tn, th, slug) ==
  IF tn[th] # None THEN tn ELSE [tn EXCEPT ![th] = slug]

set_current_tenant_global(tn, th, slug) == [x \in DOMAIN tn |-> slug]

set_current_tenant(tn, th, slug) == [tn EXCEPT ![th] = slug]

clear_current_tenant_kept(tn, th) == tn

clear_current_tenant(tn, th) == [tn EXCEPT ![th] = None]

(* ------------------------------ router --------------------------------- *)

db_for_read_bound_first(model, bound) ==
  IF Truthy(bound) THEN Alias(bound) ELSE "default"

db_for_read_unscoped(model, bound) == "default"

db_for_read_shared(model, bound) ==
  IF app_label(model) = "company_compliance" /\ Truthy(bound)
  THEN Alias("techcorp") ELSE "default"

db_for_read_fallback(model, bound) ==
  IF app_label(model) = "company_compliance" /\ Truthy(bound)
     /\ Alias(bound) \in databases
  THEN Alias(bound) ELSE "default"

db_for_read(model, bound) ==
  IF app_label(model) = "templates" THEN "default"
  ELSE IF app_label(model) = "company_compliance"
       THEN IF Truthy(bound) THEN Alias(bound) ELSE "default"
       ELSE "default"

db_for_write_central(model, bound) == "default"

db_for_write(model, bound) == db_for_read(model, bound)

\* allow_relation: "True" when the databases of both objects are in the
\* allowed set, None (no opinion) otherwise
allow_relation_either(db1, db2, bound) ==
  LET db_set == {"default"} \cup (IF Truthy(bound) THEN {Alias(bound)} ELSE {})
  IN IF db1 \in db_set \/ db2 \in db_set THEN "True" ELSE None

allow_relation(db1, db2, bound) ==
  LET db_set == {"default"} \cup (IF Truthy(bound) THEN {Alias(bound)} ELSE {})
  IN IF db1 \in db_set /\ db2 \in db_set THEN "True" ELSE None

(* ------------------------- template queries ---------------------------- *)

\* the framework_ids argument: None, or a collection of framework ids
AllFrameworks == [is_none |-> TRUE, ids |-> {}]
Only(S) == [is_none |-> FALSE, ids |-> S]
FrameworkIdsArgs == {AllFrameworks} \cup {Only(S) : S \in SUBSET FrameworkIds}

\* Framework.objects.filter(is_active=True) / .none() / .filter(id__in=...)
SelectFrameworks_conflated(framework_ids) ==
  IF framework_ids.is_none \/ framework_ids.ids = {}
  THEN {f \in FrameworkIds : Framework[f].is_active}
  ELSE {f \in framework_ids.ids \cap FrameworkIds : Framework[f].is_active}

SelectFrameworks(framework_ids) ==
  IF framework_ids.is_none
  THEN {f \in FrameworkIds : Framework[f].is_active}
  ELSE IF Cardinality(framework_ids.ids) = 0
       THEN {}
       ELSE {f \in framework_ids.ids \cap FrameworkIds : Framework[f].is_active}

\* Meta.ordering = ['name', 'version'] of Framework (name is unique)
RECURSIVE OrderFrameworks_by_id(_)
OrderFrameworks_by_id(S) ==
  IF S = {} THEN <<>>
  ELSE LET m == CHOOSE f \in S : \A g \in S : f = "fw-1" \/ g # "fw-1"
       IN <<m>> \o OrderFrameworks_by_id(S \ {m})

RECURSIVE OrderFrameworks(_)
OrderFrameworks(S) ==
  IF S = {} THEN <<>>
  ELSE LET m == CHOOSE f \in S : \A g \in S :
                  NameRank(FrameworkRow[f].name) <= NameRank(FrameworkRow[g].name)
       IN <<m>> \o OrderFrameworks(S \ {m})

\* subcategory__category__domain__framework of a template control
FrameworkOf(k) == Domain[Category[Subcategory[Control[k].subcategory]]]

\* Control.objects.filter(subcategory__category__domain__framework=f, is_active=True)
TemplateControls(f) ==
  {k \in ControlIds : FrameworkOf(k) = f /\ Control[k].is_active}

\* Meta.ordering of Control, within one subcategory: by control_code
RECURSIVE OrderControls(_)
OrderControls(S) ==
  IF S = {} THEN <<>>
  ELSE LET m == CHOOSE k \in S : \A j \in S :
                  (ControlCode[k] = "AC-001") \/ (ControlCode[j] # "AC-001")
       IN <<m>> \o OrderControls(S \ {m})

(* -------------------------- tenant queries ----------------------------- *)

Range(s) == {s[i] : i \in 1..Len(s)}

\* CompanyFramework.objects.filter(name=..., version=...).first()
ExistingFramework_full_name(alias, f) ==
  \E r \in Range(CompanyFramework[alias]) :
     r.name = "Sarbanes-Oxley Act" /\ r.version = FrameworkRow[f].version

ExistingFramework(alias, f) ==
  \E r \in Range(CompanyFramework[alias]) :
     r.name = FrameworkRow[f].name /\ r.version = FrameworkRow[f].version

\* a lookup or create naming a keyword that is no field of the model raises
\* FieldError / TypeError
UnknownField(fields, kwargs) == \E k \in kwargs : k \notin fields

\* keywords of the CompanyControl existence check and create
ControlLookupKwargs == {"framework", "control_code"}

\* CompanyControl.objects.filter(framework=..., control_code=...).first()
ExistingControl(alias, cf, k) ==
  \E r \in Range(CompanyControl[alias]) :
     r.framework = cf.id /\ r.control_code = ControlCode[k]

(* ------------------------------ locals --------------------------------- *)

\* no CompanyFramework row
NoRow == [id |-> 0, name |-> "", version |-> "", template_framework_id |-> None]

NoCall ==
  [tenant_slug |-> None, framework_ids |-> AllFrameworks, frameworks |-> <<>>,
   framework |-> None, company_framework |-> NoRow, template_controls |-> <<>>,
   controls_copied |-> 0, copied_frameworks |-> <<>>]

\* what a call did: the binding it found, whether it follows a complete
\* distribute(T, None), the tenant rows it found, the (model, database) pairs
\* of its statements, the frameworks it skipped, failed on and created, the
\* controls it tried, failed on and created, the binding
\* copy_framework_controls found and the bindings under which it looked a
\* control up
NoHist ==
  [entry |-> None, second |-> FALSE, fwAtEntry |-> <<>>, ctlAtEntry |-> <<>>,
   access |-> {}, skipped |-> <<>>, failed |-> {}, created |-> <<>>,
   attempted |-> {}, ctlFailed |-> {}, ctlCreated |-> 0,
   found |-> None, ctlBound |-> {}]

\* a thread that did nothing with its binding yet
NoCtx == [expect |-> None, got |-> None, want |-> None, n |-> 0,
          gets |-> 0, idle_clear |-> FALSE]

\* a thread that is not registering a tenant database
\* found, fetched, stored, failed: what the call in hand has done so far
NoReg == [pc |-> "idle", tenant_slug |-> None, result |-> None,
          found |-> FALSE, fetched |-> FALSE, stored |-> FALSE, failed |-> FALSE]

\* a thread that is not handling a request
\* entry: the binding the request found on its thread; residency: the
\* residency mode the tenant service gave for the tenant of the request
NoReq == [pc |-> "idle", tenant |-> None, user |-> None, op |-> None,
          outcome |-> None, accesses |-> {}, entry |-> None, residency |-> None]

\* a thread that is not serving an internal endpoint: the view, the
\* X-Internal-Token and the body of the request, the credentials received,
\* the status of the response, and what the call has done so far
NoPost == [pc |-> "idle", view |-> None, token |-> None, tenant_slug |-> None,
           framework_ids |-> AllFrameworks, connection_name |-> None,
           status |-> 0, failed |-> FALSE, stored |-> FALSE, invoked |-> FALSE]

InitRest ==
  /\ ctx = [t \in Threads |-> NoCtx]
  /\ reg = [t \in Threads |-> NoReg]
  /\ service = [calls |-> [s \in Tenants |-> 0],
                stores |-> [s \in Tenants |-> 0],
                failed |-> [s \in Tenants |-> 0],
                partial |-> {}]
  /\ req = [t \in Threads |-> NoReq]
  /\ ControlAssignment = [a \in Aliases |-> <<>>]
  /\ budget = [ops |-> 0, regs |-> 0, reqs |-> 0, posts |-> 0]
  /\ internal = [INTERNAL_REGISTER_DB_TOKEN |-> None,
                 post |-> [t \in Threads |-> NoPost]]


Init ==
  /\ Framework \in [FrameworkIds -> [is_active : BOOLEAN]]
  /\ Control \in [ControlIds -> [subcategory : DOMAIN Subcategory, is_active : BOOLEAN]]
  /\ Control["ctl-1"].subcategory = "sub-1"
  /\ CompanyFramework = [a \in Aliases |-> <<>>]
  /\ CompanyControl = [a \in Aliases |-> <<>>]
  /\ databases = {"default"}
  /\ tenant = [t \in Threads |-> None]
  /\ pc = [t \in Threads |-> "idle"]
  /\ call = [t \in Threads |-> NoCall]
  /\ hist = [t \in Threads |-> NoHist]
  /\ priorFull = {}
  /\ calls = 0
  /\ faults = 0
  /\ InitRest

(* --------------------- environment and tenant API ---------------------- *)

\* a tenant database is registered: connections.databases[alias] = db_config
Register(a) ==
  /\ UNCHANGED outside
  /\ a \notin databases
  /\ databases' = databases \cup {a}
  /\ UNCHANGED <<Framework, Control, CompanyFramework, CompanyControl, tenant,
                 pc, call, hist, priorFull, calls, faults>>

\* code outside distribute binds a tenant on its thread
SetTenant(t, slug) ==
  /\ UNCHANGED outside
  /\ pc[t] = "idle"
  /\ tenant[t] # slug
  /\ tenant' = set_current_tenant(tenant, t, slug)
  /\ UNCHANGED <<Framework, Control, CompanyFramework, CompanyControl,
                 databases, pc, call, hist, priorFull, calls, faults>>

\* code outside distribute clears the binding of its thread
ClearTenant(t) ==
  /\ UNCHANGED outside
  /\ pc[t] = "idle"
  /\ tenant[t] # None
  /\ tenant' = clear_current_tenant(tenant, t)
  /\ UNCHANGED <<Framework, Control, CompanyFramework, CompanyControl,
                 databases, pc, call, hist, priorFull, calls, faults>>

(* --------------- copy_framework_templates_to_tenant -------------------- *)

\* a database statement either runs, or fails with a database error while the
\* environment still has an outage to spend
Outcome(ok) == ok \/ faults < MaxFaults
Spend(ok) == IF ok THEN faults ELSE faults + 1

\* line 72: the error of one framework is printed and the loop goes on with
\* the frameworks that are left
ExceptFramework_abort(rest) == <<>>

ExceptFramework(rest) == rest

\* line 134: the error of one control is printed and the loop goes on with
\* the controls that are left
ExceptControl(rest) == rest

\* lines 65-68: the entry appended to copied_frameworks
Entry(company_framework, controls_copied) ==
  [framework |-> company_framework, controls_copied |-> controls_copied]

\* lines 12-34: clear the binding, select the frameworks, count them on the
\* central database, bind the tenant
copy_framework_templates_to_tenant(t, slug, ids) ==
  /\ pc[t] = "idle"
  /\ calls < MaxCalls
  /\ calls' = calls + 1
  /\ LET cleared == clear_current_tenant(tenant, t)
         src == db_for_read("Framework", cleared[t])
     IN \E ok \in BOOLEAN :
          /\ Outcome(ok)
          /\ faults' = Spend(ok)
          /\ tenant' = IF ok /\ src = "default"
                       THEN set_current_tenant(cleared, t, slug)
                       ELSE cleared
          /\ pc' = [pc EXCEPT ![t] = IF ok /\ src = "default"
                                     THEN "frameworks" ELSE "raised"]
          /\ hist' = [hist EXCEPT ![t] =
                        [NoHist EXCEPT
                           !.entry = tenant[t],
                           !.second = (slug \in priorFull /\ ids.is_none),
                           !.fwAtEntry = CompanyFramework[Alias(slug)],
                           !.ctlAtEntry = CompanyControl[Alias(slug)],
                           !.access = {<<"Framework", src>>}]]
  /\ call' = [call EXCEPT ![t] = [NoCall EXCEPT !.tenant_slug = slug,
                                                !.framework_ids = ids]]
  /\ UNCHANGED <<Framework, Control, CompanyFramework, CompanyControl,
                 databases, priorFull>>

\* distribute called on its own, by a script or a shell
Begin(t, slug, ids) ==
  /\ UNCHANGED outside
  /\ copy_framework_templates_to_tenant(t, slug, ids)

\* line 37, first iteration: the lazy framework queryset is evaluated on the
\* central database; an error leaves through the finally clause (line 77)
EvaluateFrameworks(t) ==
  /\ UNCHANGED outside
  /\ pc[t] = "frameworks"
  /\ LET src == db_for_read("Framework", get_current_tenant(t))
     IN \E ok \in BOOLEAN :
          /\ Outcome(ok)
          /\ faults' = Spend(ok)
          /\ hist' = [hist EXCEPT ![t].access = @ \cup {<<"Framework", src>>}]
          /\ IF ok /\ src = "default"
             THEN /\ call' = [call EXCEPT ![t].frameworks =
                                OrderFrameworks(SelectFrameworks(call[t].framework_ids))]
                  /\ pc' = [pc EXCEPT ![t] = "loop"]
                  /\ tenant' = tenant
             ELSE /\ tenant' = clear_current_tenant(tenant, t)
                  /\ pc' = [pc EXCEPT ![t] = "raised"]
                  /\ call' = call
  /\ UNCHANGED <<Framework, Control, CompanyFramework, CompanyControl,
                 databases, priorFull, calls>>

\* lines 37-49 and 72-77: take the next framework and look for its copy in
\* the database the router gives for CompanyFramework; with no framework left
\* the finally clause clears the binding and the list of copies is returned
CheckFramework(t) ==
  /\ UNCHANGED outside
  /\ pc[t] = "loop"
  /\ IF call[t].frameworks = <<>>
     THEN /\ tenant' = clear_current_tenant(tenant, t)
          /\ pc' = [pc EXCEPT ![t] = "returned"]
          /\ UNCHANGED <<call, hist, faults>>
     ELSE LET f == Head(call[t].frameworks)
              rest == Tail(call[t].frameworks)
              alias == db_for_read("CompanyFramework", get_current_tenant(t))
              seen == [hist EXCEPT ![t].access = @ \cup {<<"CompanyFramework", alias>>}]
          IN \E ok \in BOOLEAN :
               /\ Outcome(ok)
               /\ faults' = Spend(ok)
               /\ tenant' = tenant
               /\ IF alias \notin databases \/ ~ok
                  THEN /\ call' = [call EXCEPT ![t].frameworks = ExceptFramework(rest)]
                       /\ hist' = [seen EXCEPT ![t].failed = @ \cup {f}]
                       /\ pc' = pc
                  ELSE IF ExistingFramework(alias, f)
                  THEN \* line 47: skipped
                       /\ call' = [call EXCEPT ![t].frameworks = rest]
                       /\ hist' = [seen EXCEPT ![t].skipped = Append(@, f)]
                       /\ pc' = pc
                  ELSE /\ call' = [call EXCEPT ![t].frameworks = rest,
                                               ![t].framework = f]
                       /\ hist' = seen
                       /\ pc' = [pc EXCEPT ![t] = "create"]
  /\ UNCHANGED <<Framework, Control, CompanyFramework, CompanyControl,
                 databases, priorFull, calls>>

\* lines 52-60: CompanyFramework.objects.create(...) in the database the
\* router gives for a write
CreateFramework(t) ==
  /\ UNCHANGED outside
  /\ pc[t] = "create"
  /\ LET f == call[t].framework
         alias == db_for_write("CompanyFramework", get_current_tenant(t))
         seen == [hist EXCEPT ![t].access = @ \cup {<<"CompanyFramework", alias>>}]
     IN \E ok \in BOOLEAN :
          /\ Outcome(ok)
          /\ faults' = Spend(ok)
          /\ IF alias \notin databases \/ ~ok
             THEN /\ hist' = [seen EXCEPT ![t].failed = @ \cup {f}]
                  /\ call' = [call EXCEPT ![t].framework = None,
                                          ![t].frameworks = ExceptFramework(@)]
                  /\ pc' = [pc EXCEPT ![t] = "loop"]
                  /\ CompanyFramework' = CompanyFramework
             ELSE LET row == [id |-> Len(CompanyFramework[alias]) + 1,
                              name |-> FrameworkRow[f].name,
                              version |-> FrameworkRow[f].version,
                              template_framework_id |-> f]
                  IN /\ CompanyFramework' =
                          [CompanyFramework EXCEPT ![alias] = Append(@, row)]
                     /\ call' = [call EXCEPT ![t].company_framework = row]
                     /\ hist' = [seen EXCEPT ![t].created = Append(@, f)]
                     /\ pc' = [pc EXCEPT ![t] = "controls"]
  /\ UNCHANGED <<Framework, Control, CompanyControl, databases, tenant,
                 priorFull, calls>>

switch_back_skipped(tn, th, current_tenant) == tn

\* lines 103-105: the binding found on entry is set again when it is truthy
switch_back(tn, th, current_tenant) ==
  IF Truthy(current_tenant) THEN set_current_tenant(tn, th, current_tenant) ELSE tn

\* lines 63 and 85-107: copy_framework_controls remembers the binding, clears
\* it, builds the template control query, binds the tenant again and
\* evaluates the query; an error is caught at line 72
ReadControls(t) ==
  /\ UNCHANGED outside
  /\ pc[t] = "controls"
  /\ LET current_tenant == get_current_tenant(t)
         cleared == clear_current_tenant(tenant, t)
         restored == switch_back(cleared, t, current_tenant)
         src == db_for_read("Control", restored[t])
         seen == [hist EXCEPT ![t].access = @ \cup {<<"Control", src>>},
                              ![t].found = current_tenant]
     IN \E ok \in BOOLEAN :
          /\ Outcome(ok)
          /\ faults' = Spend(ok)
          /\ tenant' = restored
          /\ IF ok /\ src = "default"
             THEN /\ call' = [call EXCEPT
                                ![t].template_controls =
                                   OrderControls(TemplateControls(call[t].framework)),
                                ![t].controls_copied = 0]
                  /\ pc' = [pc EXCEPT ![t] = "copy"]
                  /\ hist' = seen
             ELSE /\ call' = [call EXCEPT ![t].framework = None,
                                          ![t].company_framework = NoRow,
                                          ![t].frameworks = ExceptFramework(@)]
                  /\ hist' = [seen EXCEPT ![t].failed = @ \cup {call[t].framework}]
                  /\ pc' = [pc EXCEPT ![t] = "loop"]
  /\ UNCHANGED <<Framework, Control, CompanyFramework, CompanyControl,
                 databases, priorFull, calls>>

\* lines 107-137 and 65-70: one template control is looked up in and copied
\* to the tenant database, an error is printed and the loop goes on (line
\* 134); after the last control the count is returned and the framework is
\* appended to the list of copies.  The lookup and the create are one step:
\* the lookup names a keyword, and a step of its own for the create would
\* never be taken.
CopyControl(t) ==
  /\ UNCHANGED outside
  /\ pc[t] = "copy"
  /\ IF call[t].template_controls = <<>>
     THEN /\ call' = [call EXCEPT
                        ![t].copied_frameworks =
                           Append(@, Entry(call[t].company_framework,
                                           call[t].controls_copied)),
                        ![t].framework = None,
                        ![t].company_framework = NoRow,
                        ![t].controls_copied = 0]
          /\ pc' = [pc EXCEPT ![t] = "loop"]
          /\ UNCHANGED <<CompanyControl, hist>>
     ELSE LET k == Head(call[t].template_controls)
              rest == Tail(call[t].template_controls)
              cf == call[t].company_framework
              alias == db_for_write("CompanyControl", get_current_tenant(t))
              tried == [hist EXCEPT ![t].attempted = @ \cup {k},
                                    ![t].ctlBound = @ \cup {get_current_tenant(t)}]
          IN /\ pc' = pc
             /\ IF UnknownField(CompanyControlFields, ControlLookupKwargs)
                THEN \* FieldError before any statement reaches a database
                     /\ call' = [call EXCEPT ![t].template_controls = ExceptControl(rest)]
                     /\ hist' = [tried EXCEPT ![t].ctlFailed = @ \cup {k}]
                     /\ CompanyControl' = CompanyControl
                ELSE IF alias \notin databases
                THEN /\ call' = [call EXCEPT ![t].template_controls = ExceptControl(rest)]
                     /\ hist' = [tried EXCEPT
                                   ![t].ctlFailed = @ \cup {k},
                                   ![t].access = @ \cup {<<"CompanyControl", alias>>}]
                     /\ CompanyControl' = CompanyControl
                ELSE IF ExistingControl(alias, cf, k)
                THEN /\ call' = [call EXCEPT ![t].template_controls = rest]
                     /\ hist' = [tried EXCEPT
                                   ![t].access = @ \cup {<<"CompanyControl", alias>>}]
                     /\ CompanyControl' = CompanyControl
                ELSE /\ CompanyControl' =
                          [CompanyControl EXCEPT ![alias] =
                             Append(@, [framework |-> cf.id,
                                        template_control_id |-> k,
                                        control_code |-> ControlCode[k]])]
                     /\ call' = [call EXCEPT ![t].template_controls = rest,
                                             ![t].controls_copied = @ + 1]
                     /\ hist' = [tried EXCEPT
                                   ![t].ctlCreated = @ + 1,
                                   ![t].access = @ \cup {<<"CompanyControl", alias>>}]
  /\ UNCHANGED <<Framework, Control, CompanyFramework, databases, tenant,
                 priorFull, calls, faults>>

\* the caller takes the result (or the exception) and the thread is free again
Returned(t) ==
  /\ pc[t] \in {"returned", "raised"}
  /\ priorFull' = IF /\ pc[t] = "returned"
                     /\ call[t].framework_ids.is_none
                     /\ hist[t].failed = {}
                  THEN priorFull \cup {call[t].tenant_slug}
                  ELSE priorFull
  /\ pc' = [pc EXCEPT ![t] = "idle"]
  /\ call' = [call EXCEPT ![t] = NoCall]
  /\ hist' = [hist EXCEPT ![t] = NoHist]
  /\ UNCHANGED <<Framework, Control, CompanyFramework, CompanyControl,
                 databases, tenant, calls, faults>>

\* distribute returns to a script or a shell
Return(t) ==
  /\ UNCHANGED outside
  /\ Returned(t)

(* --------------------------- specification ----------------------------- *)

\* the steps of the threads in Ths
Step(Ths) ==
  \/ \E a \in Aliases : Register(a)
  \/ \E t \in Ths, slug \in Tenants : SetTenant(t, slug)
  \/ \E t \in Ths : ClearTenant(t)
  \/ \E t \in Ths, slug \in Tenants, ids \in FrameworkIdsArgs : Begin(t, slug, ids)
  \/ \E t \in Ths : EvaluateFrameworks(t)
  \/ \E t \in Ths : CheckFramework(t)
  \/ \E t \in Ths : CreateFramework(t)
  \/ \E t \in Ths : ReadControls(t)
  \/ \E t \in Ths : CopyControl(t)
  \/ \E t \in Ths : Return(t)

\* one thread calls distribute again and again, for every catalog
Next == Step({1})

Spec == Init /\ [][Next]_vars

\* the steps of distribute alone, for the threads in Ths
Distribute(Ths) ==
  \/ \E t \in Ths, slug \in Tenants, ids \in FrameworkIdsArgs : Begin(t, slug, ids)
  \/ \E t \in Ths : EvaluateFrameworks(t)
  \/ \E t \in Ths : CheckFramework(t)
  \/ \E t \in Ths : CreateFramework(t)
  \/ \E t \in Ths : ReadControls(t)
  \/ \E t \in Ths : CopyControl(t)
  \/ \E t \in Ths : Return(t)

\* two threads run distribute at the same time: one catalog with every row
\* active, every tenant database registered, no outage left
InitConc ==
  /\ Framework = [f \in FrameworkIds |-> [is_active |-> TRUE]]
  /\ Control = [k \in ControlIds |-> [subcategory |-> "sub-1", is_active |-> TRUE]]
  /\ CompanyFramework = [a \in Aliases |-> <<>>]
  /\ CompanyControl = [a \in Aliases |-> <<>>]
  /\ databases = Aliases
  /\ tenant = [t \in Threads |-> None]
  /\ pc = [t \in Threads |-> "idle"]
  /\ call = [t \in Threads |-> NoCall]
  /\ hist = [t \in Threads |-> NoHist]
  /\ priorFull = {}
  /\ calls = 0
  /\ faults = MaxFaults
  /\ InitRest

NextConc == Distribute(Threads)

SpecConc == InitConc /\ [][NextConc]_vars

(* ----------------- the binding operations on their own ----------------- *)

\* the state distribute works on, which the other operations leave alone
engine == <<Framework, Control, CompanyFramework, CompanyControl,
            pc, call, hist, priorFull, calls, faults>>

\* set_current_tenant(slug) called in thread t
CtxSet(t, slug) ==
  /\ budget.ops < MaxOps
  /\ tenant' = set_current_tenant(tenant, t, slug)
  /\ ctx' = [ctx EXCEPT ![t].expect = slug, ![t].n = @ + 1]
  /\ budget' = [budget EXCEPT !.ops = @ + 1]
  /\ UNCHANGED <<engine, internal, databases, reg, service, req, ControlAssignment>>

\* get_current_tenant() called in thread t
CtxGet(t) ==
  /\ budget.ops < MaxOps
  /\ ctx' = [ctx EXCEPT ![t].got = get_current_tenant(t),
                        ![t].want = ctx[t].expect,
                        ![t].gets = @ + 1]
  /\ budget' = [budget EXCEPT !.ops = @ + 1]
  /\ UNCHANGED <<engine, internal, databases, tenant, reg, service, req, ControlAssignment>>

\* clear_current_tenant() called in thread t, bound or not
CtxClear(t) ==
  /\ budget.ops < MaxOps
  /\ tenant' = clear_current_tenant(tenant, t)
  /\ ctx' = [ctx EXCEPT ![t].expect = None, ![t].n = @ + 1,
                        ![t].idle_clear = @ \/ tenant[t] = None]
  /\ budget' = [budget EXCEPT !.ops = @ + 1]
  /\ UNCHANGED <<engine, internal, databases, reg, service, req, ControlAssignment>>

NextCtx ==
  \/ \E t \in Threads, slug \in Tenants : CtxSet(t, slug)
  \/ \E t \in Threads : CtxGet(t)
  \/ \E t \in Threads : CtxClear(t)

SpecCtx == InitConc /\ [][NextCtx]_vars

(* ------------- register_tenant_database_connection -------------------- *)

\* the answers of the credential endpoint of the tenant service
Statuses == {200, 503}

\* thread t calls register_tenant_database_connection(slug)
RegCall(t, slug) ==
  /\ reg[t].pc = "idle"
  /\ req[t].pc = "idle"
  /\ internal.post[t].pc = "idle"
  /\ budget.regs < MaxRegs
  /\ reg' = [reg EXCEPT ![t] = [NoReg EXCEPT !.pc = "check", !.tenant_slug = slug]]
  /\ budget' = [budget EXCEPT !.regs = @ + 1]
  /\ UNCHANGED <<engine, internal, databases, tenant, ctx, service, req, ControlAssignment>>

RegCheck_refetch(t) ==
  /\ reg[t].pc = "check"
  /\ reg' = [reg EXCEPT ![t].pc = "fetch",
                         ![t].found = Alias(reg[t].tenant_slug) \in databases]
  /\ UNCHANGED <<engine, internal, databases, tenant, ctx, service, req,
                 ControlAssignment, budget>>

\* lines 107-109: the connection is looked up in connections.databases
RegCheck(t) ==
  /\ reg[t].pc = "check"
  /\ IF Alias(reg[t].tenant_slug) \in databases
     THEN reg' = [reg EXCEPT ![t].pc = "idle",
                             ![t].found = TRUE,
                             ![t].result = Alias(reg[t].tenant_slug)]
     ELSE reg' = [reg EXCEPT ![t].pc = "fetch"]
  /\ UNCHANGED <<engine, internal, databases, tenant, ctx, service, req,
                 ControlAssignment, budget>>

\* lines 111-119 and 140-142: the credentials are asked of the tenant service;
\* any answer but 200, and any exception, ends the call with None
RegFetch(t, status) ==
  /\ reg[t].pc = "fetch"
  /\ service' = [service EXCEPT
                   !.calls[reg[t].tenant_slug] = @ + 1,
                   !.failed[reg[t].tenant_slug] = @ + (IF status = 200 THEN 0 ELSE 1)]
  /\ IF status = 200
     THEN reg' = [reg EXCEPT ![t].pc = "store", ![t].fetched = TRUE]
     ELSE reg' = [reg EXCEPT ![t].pc = "idle", ![t].result = None,
                             ![t].fetched = TRUE, ![t].failed = TRUE]
  /\ UNCHANGED <<engine, internal, databases, tenant, ctx, req, ControlAssignment, budget>>

RegStore_partial(t, complete) ==
  /\ reg[t].pc = "store"
  /\ databases' = databases \cup {Alias(reg[t].tenant_slug)}
  /\ service' = [service EXCEPT
                   !.stores[reg[t].tenant_slug] = @ + 1,
                   !.failed[reg[t].tenant_slug] = @ + (IF complete THEN 0 ELSE 1),
                   !.partial = @ \cup (IF complete THEN {}
                                       ELSE {Alias(reg[t].tenant_slug)})]
  /\ reg' = [reg EXCEPT ![t].pc = "idle",
                         ![t].result = IF complete THEN Alias(reg[t].tenant_slug)
                                                   ELSE None,
                         ![t].stored = TRUE,
                         ![t].failed = ~complete]
  /\ UNCHANGED <<engine, internal, tenant, ctx, req, ControlAssignment, budget>>

\* lines 120-142: the descriptor is built from the credentials, stored under
\* the alias and the alias returned; a field missing from the credentials
\* raises while the descriptor is built, nothing is stored and the call
\* returns None
RegStore(t, complete) ==
  /\ reg[t].pc = "store"
  /\ IF complete
     THEN /\ databases' = databases \cup {Alias(reg[t].tenant_slug)}
          /\ service' = [service EXCEPT !.stores[reg[t].tenant_slug] = @ + 1]
          /\ reg' = [reg EXCEPT ![t].pc = "idle",
                                 ![t].result = Alias(reg[t].tenant_slug),
                                 ![t].stored = TRUE]
     ELSE /\ databases' = databases
          /\ service' = [service EXCEPT !.failed[reg[t].tenant_slug] = @ + 1]
          /\ reg' = [reg EXCEPT ![t].pc = "idle",
                                 ![t].result = None,
                                 ![t].failed = TRUE]
  /\ UNCHANGED <<engine, internal, tenant, ctx, req, ControlAssignment, budget>>

\* the steps of a registration in flight
Registration(Ths) ==
  \/ \E t \in Ths : RegCheck(t)
  \/ \E t \in Ths, status \in Statuses : RegFetch(t, status)
  \/ \E t \in Ths, complete \in BOOLEAN : RegStore(t, complete)

\* no tenant database is registered yet
InitReg ==
  /\ Framework = [f \in FrameworkIds |-> [is_active |-> TRUE]]
  /\ Control = [k \in ControlIds |-> [subcategory |-> "sub-1", is_active |-> TRUE]]
  /\ CompanyFramework = [a \in Aliases |-> <<>>]
  /\ CompanyControl = [a \in Aliases |-> <<>>]
  /\ databases = {"default"}
  /\ tenant = [t \in Threads |-> None]
  /\ pc = [t \in Threads |-> "idle"]
  /\ call = [t \in Threads |-> NoCall]
  /\ hist = [t \in Threads |-> NoHist]
  /\ priorFull = {}
  /\ calls = 0
  /\ faults = 0
  /\ InitRest

NextReg ==
  \/ \E t \in Threads, slug \in Tenants : RegCall(t, slug)
  \/ Registration(Threads)

SpecReg == InitReg /\ [][NextReg]_vars

(* ------------------------- a request, end to end ----------------------- *)

Users == {"superuser", "user"}

Ops == {"list", "create"}

\* one statement on a tenant-owned table, as the router and the connection
\* handler saw it
Access(by, model, kind, bound, db, served, rows) ==
  [by |-> by, model |-> model, kind |-> kind, bound |-> bound, db |-> db,
   provisioned |-> Alias(bound) \in databases, served |-> served, rows |-> rows]

\* the requests a client may send: the first label of a dotted host, the
\* X-Tenant-Slug header, the tenant of the resolved URL (not resolved yet
\* when the middleware runs) and the tenant query parameter
Requests ==
  [subdomain : {None, "www", "techcorp"}, header : {None, "democorp"},
   resolver_match : {None}, query : {None, "techcorp"}]

\* extract_tenant_from_request: subdomain, header, URL, query, in this order
extract_tenant_from_request(request) ==
  IF request.subdomain # None /\ request.subdomain \notin {"www", "api", "admin"}
  THEN request.subdomain
  ELSE IF Truthy(request.header) THEN request.header
  ELSE IF Truthy(request.resolver_match) THEN request.resolver_match
  ELSE IF Truthy(request.query) THEN request.query
  ELSE None

ReqEnter_unless_bound(t, request, user, op) ==
  /\ req[t].pc = "idle"
  /\ reg[t].pc = "idle"
  /\ budget.reqs < MaxReqs
  /\ LET slug == extract_tenant_from_request(request)
     IN /\ tenant' = IF Truthy(get_current_tenant(t)) THEN tenant
               ELSE IF Truthy(slug) THEN set_current_tenant(tenant, t, slug)
               ELSE clear_current_tenant(tenant, t)
        /\ req' = [req EXCEPT ![t] = [NoReq EXCEPT !.pc = "permission", !.tenant = slug,
                                            !.user = user, !.op = op,
                                            !.entry = get_current_tenant(t)]]
  /\ budget' = [budget EXCEPT !.reqs = @ + 1]
  /\ UNCHANGED <<engine, internal, databases, ctx, reg, service, ControlAssignment>>

\* TenantMiddleware.__call__, lines 104-112: the tenant of the request is bound
ReqEnter(t, request, user, op) ==
  /\ req[t].pc = "idle"
  /\ reg[t].pc = "idle"
  /\ budget.reqs < MaxReqs
  /\ LET tenant_slug == extract_tenant_from_request(request)
     IN /\ tenant' = IF Truthy(tenant_slug)
                     THEN set_current_tenant(tenant, t, tenant_slug)
                     ELSE clear_current_tenant(tenant, t)
        /\ req' = [req EXCEPT ![t] = [NoReq EXCEPT !.pc = "permission", !.tenant = tenant_slug,
                                            !.user = user, !.op = op,
                                            !.entry = get_current_tenant(t)]]
  /\ budget' = [budget EXCEPT !.reqs = @ + 1]
  /\ UNCHANGED <<engine, internal, databases, ctx, reg, service, ControlAssignment>>

\* IsTenantMember.has_permission up to the membership call
HasPermission(t) ==
  /\ req[t].pc = "permission"
  /\ LET current_tenant == IF Truthy(get_current_tenant(t))
                           THEN get_current_tenant(t) ELSE req[t].tenant
     IN IF req[t].user = "superuser"
        THEN req' = [req EXCEPT ![t].pc = "handler"]
        ELSE IF ~Truthy(current_tenant)
        THEN req' = [req EXCEPT ![t].pc = "respond", ![t].outcome = "denied"]
        ELSE req' = [req EXCEPT ![t].pc = "residency"]
  /\ UNCHANGED <<engine, internal, databases, tenant, ctx, reg, service,
                 ControlAssignment, budget>>

Residencies == {"ISOLATED", "CENTRALIZED", "unavailable"}

\* get_user_tenant_membership: the residency of the tenant decides where the
\* membership is looked up
get_user_tenant_membership(t, residency) ==
  /\ req[t].pc = "residency"
  /\ req' = [req EXCEPT
               ![t].pc = CASE residency = "ISOLATED" -> "isolated"
                           [] residency = "CENTRALIZED" -> "centralized"
                           [] OTHER -> "respond",
               ![t].outcome = IF residency = "unavailable" THEN "denied" ELSE @,
               ![t].residency = residency]
  /\ UNCHANGED <<engine, internal, databases, tenant, ctx, reg, service,
                 ControlAssignment, budget>>

\* get_isolated_user_membership: bind, look the user up in the tenant
\* database, clear; an error of the lookup skips the clear
get_isolated_user_membership(t, tenant_user) ==
  /\ req[t].pc = "isolated"
  /\ LET bound == set_current_tenant(tenant, t, req[t].tenant)
         db == db_for_read("TenantUser", bound[t])
     IN IF db \notin databases
        THEN /\ tenant' = bound
             /\ req' = [req EXCEPT
                  ![t].pc = "respond", ![t].outcome = "denied",
                  ![t].accesses = @ \cup {Access("membership", "TenantUser",
                                           "read", bound[t], db, "error", {})}]
        ELSE /\ tenant' = clear_current_tenant(bound, t)
             /\ req' = [req EXCEPT
                  ![t].pc = IF tenant_user THEN "handler" ELSE "respond",
                  ![t].outcome = IF tenant_user THEN @ ELSE "denied",
                  ![t].accesses = @ \cup {Access("membership", "TenantUser",
                                           "read", bound[t], db, "ok", {})}]
  /\ UNCHANGED <<engine, internal, databases, ctx, reg, service, ControlAssignment, budget>>

\* get_centralized_user_membership: a member has the tenant database
\* registered, whatever the registration returns
get_centralized_user_membership(t, has_membership) ==
  /\ req[t].pc = "centralized"
  /\ IF has_membership
     THEN /\ req' = [req EXCEPT ![t].pc = "handler"]
          /\ reg' = [reg EXCEPT ![t] = [NoReg EXCEPT
                       !.pc = "check", !.tenant_slug = req[t].tenant]]
     ELSE /\ req' = [req EXCEPT ![t].pc = "respond", ![t].outcome = "denied"]
          /\ UNCHANGED reg
  /\ UNCHANGED <<engine, internal, databases, tenant, ctx, service, ControlAssignment, budget>>

\* the (CompanyControl id, employee id) pairs a client may name
Assignments == {<<1, 7>>, <<1, 8>>, <<2, 7>>}

Duplicate_never(rows, control, employee) == FALSE

\* unique_together = ['control', 'assigned_to_employee_id']: the validator of
\* the serializer and the constraint of the table refuse a second row
Duplicate(rows, control, employee) ==
  \E i \in 1..Len(rows) :
    rows[i].control = control /\ rows[i].assigned_to_employee_id = employee

\* the view: one statement on ControlAssignment under the binding of the
\* thread: a list, or a create for (control, employee), where the control
\* exists in the database the statement reaches; present tells whether the
\* central database has the table
Handler(t, present, control, employee) ==
  /\ req[t].pc = "handler"
  /\ reg[t].pc = "idle"
  /\ LET bound == get_current_tenant(t)
         kind == IF req[t].op = "list" THEN "read" ELSE "write"
         db == IF kind = "read" THEN db_for_read("ControlAssignment", bound)
                                ELSE db_for_write("ControlAssignment", bound)
         fails == db \notin databases \/ (db = "default" /\ ~present)
         rows == IF kind = "read" /\ ~fails THEN Range(ControlAssignment[db]) ELSE {}
         refused == /\ kind = "write" /\ ~fails
                    /\ Duplicate(ControlAssignment[db], control, employee)
     IN /\ req' = [req EXCEPT
                    ![t].pc = "respond",
                    ![t].outcome = IF fails THEN "error"
                                   ELSE IF refused THEN "invalid" ELSE "ok",
                    ![t].accesses = @ \cup
                       {Access("handler", "ControlAssignment", kind, bound, db,
                               IF fails THEN "error"
                               ELSE IF refused THEN "refused" ELSE "ok", rows)}]
        /\ IF kind = "write" /\ ~fails /\ ~refused
           THEN ControlAssignment' = [ControlAssignment EXCEPT
                  ![db] = Append(@, [control |-> control,
                                     assigned_to_employee_id |-> employee,
                                     created_in |-> bound])]
           ELSE UNCHANGED ControlAssignment
  /\ UNCHANGED <<engine, internal, databases, tenant, ctx, reg, service, budget>>

\* lines 114-119: get_response has returned; the binding is cleared and the
\* request and the locals of its calls are gone
ReqExit(t) ==
  /\ req[t].pc = "respond"
  /\ tenant' = clear_current_tenant(tenant, t)
  /\ req' = [req EXCEPT ![t] = [NoReq EXCEPT !.outcome = req[t].outcome]]
  /\ reg' = [reg EXCEPT ![t] = NoReg]
  /\ UNCHANGED <<engine, internal, databases, ctx, service, ControlAssignment, budget>>

\* line 114: get_response leaves by an exception; lines 116-119 do not run
ReqRaise(t) ==
  /\ req[t].pc = "handler"
  /\ reg[t].pc = "idle"
  /\ req' = [req EXCEPT ![t] = [NoReq EXCEPT !.outcome = "raised"]]
  /\ reg' = [reg EXCEPT ![t] = NoReg]
  /\ UNCHANGED <<engine, internal, databases, tenant, ctx, service,
                 ControlAssignment, budget>>

NextReq ==
  \/ \E a \in Aliases : Register(a)
  \/ \E request \in Requests, user \in Users, op \in Ops :
        ReqEnter(1, request, user, op)
  \/ HasPermission(1)
  \/ \E residency \in Residencies : get_user_tenant_membership(1, residency)
  \/ \E tenant_user \in BOOLEAN : get_isolated_user_membership(1, tenant_user)
  \/ \E has_membership \in BOOLEAN : get_centralized_user_membership(1, has_membership)
  \/ Registration({1})
  \/ \E present \in BOOLEAN, pair \in Assignments :
        Handler(1, present, pair[1], pair[2])
  \/ ReqExit(1)
  \/ ReqRaise(1)

SpecReq == InitReg /\ [][NextReq]_vars

(* ------------------------- internal endpoints -------------------------- *)

Views == {"migrate", "distribute"}

\* the X-Internal-Token a caller may send, None when the header is missing
Tokens == {None, "", "secret", "guess"}

\* the names the tenant service may give, or a caller may ask, for a tenant
\* connection
ConnectionNames == {Alias(s) : s \in Tenants} \cup {"techcorp_db"}

\* the bodies of a 200 answer of the credentials endpoint: with every field,
\* or with a field missing
Credentials ==
  {[complete |-> FALSE, connection_name |-> None]}
    \cup {[complete |-> TRUE, connection_name |-> n] : n \in ConnectionNames}

Unauthorized_unless_unset(expected, internal_token) ==
  Truthy(expected) /\ internal_token # expected

\* lines 25-28, 78-81: `not expected or internal_token != expected`
Unauthorized(expected, internal_token) ==
  ~Truthy(expected) \/ internal_token # expected

\* lines 23-33, 76-86: the token and the body of the post are checked
Post(t, view, token, tenant_slug, connection_name, framework_ids) ==
  /\ internal.post[t].pc = "idle"
  /\ pc[t] = "idle"
  /\ req[t].pc = "idle"
  /\ reg[t].pc = "idle"
  /\ budget.posts < MaxPosts
  /\ budget' = [budget EXCEPT !.posts = @ + 1]
  /\ LET asked == [NoPost EXCEPT !.view = view, !.token = token]
     IN internal' = [internal EXCEPT !.post[t] =
          IF Unauthorized(internal.INTERNAL_REGISTER_DB_TOKEN, token)
          THEN [asked EXCEPT !.pc = "done", !.status = 401]
          ELSE IF ~Truthy(tenant_slug)
                  \/ (view = "migrate" /\ ~Truthy(connection_name))
          THEN [asked EXCEPT !.pc = "done", !.status = 400]
          ELSE [asked EXCEPT
                  !.pc = "credentials",
                  !.tenant_slug = tenant_slug,
                  !.framework_ids = IF view = "distribute" THEN framework_ids
                                    ELSE AllFrameworks,
                  !.connection_name = IF view = "migrate" THEN connection_name
                                      ELSE None]]
  /\ UNCHANGED <<engine, databases, tenant, ctx, reg, service, req,
                 ControlAssignment>>

\* lines 35-56, 88-110: the credentials are asked of the tenant service and
\* the connection is stored under the name asked (migrate) or the name the
\* service gave (distribute); any answer but 200 ends the post with 400, a
\* missing field with 500, and nothing is stored
ViewCredentials(t, status, creds) ==
  /\ internal.post[t].pc = "credentials"
  /\ LET post == internal.post[t]
         connection_name == IF post.view = "migrate" THEN post.connection_name
                                                     ELSE creds.connection_name
     IN IF status # 200
        THEN /\ internal' = [internal EXCEPT !.post[t] =
                   [post EXCEPT !.pc = "done", !.status = 400, !.failed = TRUE]]
             /\ UNCHANGED databases
        ELSE IF ~creds.complete
        THEN /\ internal' = [internal EXCEPT !.post[t] =
                   [post EXCEPT !.pc = "done", !.status = 500, !.failed = TRUE]]
             /\ UNCHANGED databases
        ELSE /\ internal' = [internal EXCEPT !.post[t] =
                   [post EXCEPT !.pc = "registered",
                                !.connection_name = connection_name,
                                !.stored = TRUE]]
             /\ databases' = databases \cup {connection_name}
  /\ UNCHANGED <<engine, tenant, ctx, reg, service, req, ControlAssignment, budget>>

\* line 59: call_command('migrate', ..., database=connection_name)
ViewMigrate(t, ok) ==
  /\ internal.post[t].pc = "registered"
  /\ internal.post[t].view = "migrate"
  /\ internal' = [internal EXCEPT !.post[t].pc = "done",
                                  !.post[t].invoked = TRUE,
                                  !.post[t].status = IF ok THEN 200 ELSE 500]
  /\ UNCHANGED <<engine, databases, tenant, ctx, reg, service, req,
                 ControlAssignment, budget>>

\* line 113: copy_framework_templates_to_tenant(tenant_slug, framework_ids)
ViewDistribute(t) ==
  /\ internal.post[t].pc = "registered"
  /\ internal.post[t].view = "distribute"
  /\ copy_framework_templates_to_tenant(t, internal.post[t].tenant_slug,
                                        internal.post[t].framework_ids)
  /\ internal' = [internal EXCEPT !.post[t].pc = "distributing",
                                  !.post[t].invoked = TRUE]
  /\ UNCHANGED <<ctx, reg, service, req, ControlAssignment, budget>>

\* lines 115-122: distribute has returned its list, or raised
ViewRespond(t) ==
  /\ internal.post[t].pc = "distributing"
  /\ Returned(t)
  /\ internal' = [internal EXCEPT
                   !.post[t].pc = "done",
                   !.post[t].status = IF pc[t] = "returned" THEN 200 ELSE 500]
  /\ UNCHANGED <<ctx, reg, service, req, ControlAssignment, budget>>

\* the response is sent and the thread is free again
ViewDone(t) ==
  /\ internal.post[t].pc = "done"
  /\ internal' = [internal EXCEPT !.post[t] = NoPost]
  /\ UNCHANGED <<engine, databases, tenant, ctx, reg, service, req,
                 ControlAssignment, budget>>

\* the settings may or may not carry an internal token; no tenant database
\* is registered, the catalog has every row active, no outage
InitInt ==
  /\ Framework = [f \in FrameworkIds |-> [is_active |-> TRUE]]
  /\ Control = [k \in ControlIds |-> [subcategory |-> "sub-1", is_active |-> TRUE]]
  /\ CompanyFramework = [a \in Aliases |-> <<>>]
  /\ CompanyControl = [a \in Aliases |-> <<>>]
  /\ databases = {"default"}
  /\ tenant = [t \in Threads |-> None]
  /\ pc = [t \in Threads |-> "idle"]
  /\ call = [t \in Threads |-> NoCall]
  /\ hist = [t \in Threads |-> NoHist]
  /\ priorFull = {}
  /\ calls = 0
  /\ faults = MaxFaults
  /\ ctx = [t \in Threads |-> NoCtx]
  /\ reg = [t \in Threads |-> NoReg]
  /\ service = [calls |-> [s \in Tenants |-> 0],
                stores |-> [s \in Tenants |-> 0],
                failed |-> [s \in Tenants |-> 0],
                partial |-> {}]
  /\ req = [t \in Threads |-> NoReq]
  /\ ControlAssignment = [a \in Aliases |-> <<>>]
  /\ budget = [ops |-> 0, regs |-> 0, reqs |-> 0, posts |-> 0]
  /\ \E expected \in {None, "", "secret"} :
       internal = [INTERNAL_REGISTER_DB_TOKEN |-> expected,
                   post |-> [t \in Threads |-> NoPost]]

NextInt ==
  \/ \E view \in Views, token \in Tokens, tenant_slug \in {None} \cup Tenants,
        connection_name \in {None} \cup ConnectionNames,
        framework_ids \in FrameworkIdsArgs :
        Post(1, view, token, tenant_slug, connection_name, framework_ids)
  \/ \E status \in Statuses, creds \in Credentials : ViewCredentials(1, status, creds)
  \/ \E ok \in BOOLEAN : ViewMigrate(1, ok)
  \/ ViewDistribute(1)
  \/ EvaluateFrameworks(1)
  \/ CheckFramework(1)
  \/ CreateFramework(1)
  \/ ReadControls(1)
  \/ CopyControl(1)
  \/ ViewRespond(1)
  \/ ViewDone(1)

SpecInt == InitInt /\ [][NextInt]_vars

\* the two ways a tenant connection comes to be registered, side by side:
\* the lazy registration of a request and the credential phase of the two
\* internal endpoints (what distribute does afterwards is in SpecInt)
NextProv ==
  \/ \E view \in Views, token \in Tokens, tenant_slug \in {None} \cup Tenants,
        connection_name \in {None} \cup ConnectionNames,
        framework_ids \in FrameworkIdsArgs :
        Post(1, view, token, tenant_slug, connection_name, framework_ids)
  \/ \E status \in Statuses, creds \in Credentials : ViewCredentials(1, status, creds)
  \/ \E ok \in BOOLEAN : ViewMigrate(1, ok)
  \/ ViewDone(1)
  \/ \E slug \in Tenants : RegCall(1, slug)
  \/ Registration({1})

SpecProv == InitInt /\ [][NextProv]_vars

(* ------------------------------ claims --------------------------------- *)

ActiveFrameworks == {f \in FrameworkIds : Framework[f].is_active}

\* the frameworks a call is asked to copy
Asked(t) ==
  IF call[t].framework_ids.is_none THEN ActiveFrameworks
  ELSE call[t].framework_ids.ids \cap ActiveFrameworks

\* the frameworks a call has handled or still holds
Handled(t) ==
  Range(hist[t].skipped) \cup hist[t].failed \cup Range(hist[t].created)
    \cup Range(call[t].frameworks)
    \cup (IF call[t].framework = None THEN {} ELSE {call[t].framework})

\* the template frameworks the entries of the returned list stand for
Reported(t) ==
  [i \in 1..Len(call[t].copied_frameworks) |->
     call[t].copied_frameworks[i].framework.template_framework_id]

\* an entry of the returned list that is marked as skipped
MarkedSkipped(e) == IF "skipped" \in DOMAIN e THEN e.skipped = TRUE ELSE FALSE

TenantDb(t) == Alias(call[t].tenant_slug)

C2_NoneIsAllEmptyIsNothing ==
  \A t \in Threads :
    pc[t] \in {"loop", "create", "controls", "copy", "returned"} =>
      /\ call[t].framework_ids.is_none => Handled(t) = ActiveFrameworks
      /\ (~call[t].framework_ids.is_none /\ call[t].framework_ids.ids = {}) =>
            /\ Handled(t) = {}
            /\ CompanyFramework[TenantDb(t)] = hist[t].fwAtEntry

C2_Witness ==
  \E t \in Threads :
    /\ pc[t] = "returned"
    /\ ~call[t].framework_ids.is_none
    /\ call[t].framework_ids.ids = {}
    /\ ActiveFrameworks = FrameworkIds
    /\ TenantDb(t) \in databases
    /\ CompanyFramework[TenantDb(t)] = <<>>

\* the rows of a CompanyFramework table are pairwise different in
\* (name, version) and carry the (name, version) of their template
NoDuplicate(rows) ==
  /\ \A i, j \in 1..Len(rows) :
       (rows[i].name = rows[j].name /\ rows[i].version = rows[j].version) => i = j
  /\ \A i \in 1..Len(rows) :
       /\ rows[i].template_framework_id \in FrameworkIds
       /\ rows[i].name = FrameworkRow[rows[i].template_framework_id].name
       /\ rows[i].version = FrameworkRow[rows[i].template_framework_id].version

\* C3: after any number of distribute calls for a tenant, one after another
\* or overlapping on different threads, the tenant database holds at most one
\* CompanyFramework row per (name, version), each with the (name, version) of
\* its template framework.
C3_OneCopyPerNameVersion ==
  \A a \in Aliases : NoDuplicate(CompanyFramework[a])

\* a distribute(T, None) on a tenant without any copy that met no failed
\* framework has returned
FreshFullRun(t) ==
  /\ pc[t] = "returned"
  /\ call[t].framework_ids.is_none
  /\ hist[t].fwAtEntry = <<>>
  /\ hist[t].ctlAtEntry = <<>>
  /\ hist[t].failed = {}

\* C4: distribute(T, None) on a tenant without any copy returns, for every
\* active template framework, an entry whose controls_copied equals the
\* number of active template controls under that framework.
C4_ReportCountsControls ==
  \A t \in Threads :
    FreshFullRun(t) =>
      \A f \in ActiveFrameworks :
        \E i \in 1..Len(call[t].copied_frameworks) :
          /\ Reported(t)[i] = f
          /\ ~MarkedSkipped(call[t].copied_frameworks[i])
          /\ call[t].copied_frameworks[i].controls_copied
               = Cardinality(TemplateControls(f))

\* C5: after distribute(T, None) on a tenant without any copy, the
\* CompanyControl rows of T are exactly one per active template control under
\* the copied frameworks, each with the control_code and the id of its
\* template control.
C5_OneRowPerTemplateControl ==
  \A t \in Threads :
    FreshFullRun(t) =>
      LET rows == CompanyControl[TenantDb(t)]
          wanted == UNION {TemplateControls(f) : f \in ActiveFrameworks}
      IN /\ Len(rows) = Cardinality(wanted)
         /\ \A k \in wanted :
              \E i \in 1..Len(rows) :
                /\ rows[i].template_control_id = k
                /\ rows[i].control_code = ControlCode[k]

\* C6: a failure while copying a framework or a control does not stop
\* distribute.  A call that raises has not started to copy (the error came
\* from reading the selection); a call that returned has handled every
\* selected framework: each one that did not fail itself has its copy in the
\* tenant database, and every active control of each framework copied has
\* been attempted.
C6_FailureDoesNotStopTheBatch ==
  \A t \in Threads :
    /\ pc[t] = "raised" =>
         /\ hist[t].failed = {}
         /\ hist[t].attempted = {}
         /\ hist[t].created = <<>>
    /\ pc[t] = "returned" =>
         /\ Range(hist[t].skipped) \cup hist[t].failed \cup Range(hist[t].created)
              = Asked(t)
         /\ \A f \in Asked(t) \ hist[t].failed : ExistingFramework(TenantDb(t), f)
         /\ \A f \in Range(hist[t].created) \ hist[t].failed :
              TemplateControls(f) \subseteq hist[t].attempted

C6_Witness ==
  \E t \in Threads :
    /\ pc[t] = "returned"
    /\ hist[t].failed # {}
    /\ \E f \in Range(hist[t].created) \ hist[t].failed :
         /\ Cardinality(TemplateControls(f)) = 2
         /\ TemplateControls(f) \subseteq hist[t].ctlFailed

\* the frameworks a call created and whose controls it went through
Copied(t) == Range(hist[t].created) \ hist[t].failed

C8_BindingClearedOnExit ==
  \A t \in Threads : pc[t] \in {"returned", "raised"} => tenant[t] = None

C8_Witness ==
  \E t \in Threads :
    /\ pc[t] = "raised"
    /\ hist[t].entry \in Tenants
    /\ hist[t].entry # call[t].tenant_slug
    /\ Cardinality(hist[t].access) = 1
    /\ tenant[t] = None

\* every statement of a call went to the right database: template models to
\* the central one, company models to the database of the call's tenant
RightDatabase(t) ==
  \A a \in hist[t].access :
    IF a[1] \in TemplateModels THEN a[2] = "default" ELSE a[2] = TenantDb(t)

\* the company rows of a database change only by the create of a call for
\* the tenant that owns the database
WrittenByOwner ==
  \A a \in Aliases :
    (CompanyFramework'[a] # CompanyFramework[a] \/ CompanyControl'[a] # CompanyControl[a])
      => \E t \in Threads : pc[t] \in {"create", "copy"} /\ a = TenantDb(t)

\* C9: during distribute(T, ...) template rows are read from the central
\* database and every CompanyFramework / CompanyControl lookup and create
\* goes to T's database; the central database never holds a company row, no
\* database is written by a call for another tenant, no template row changes.
C9_ReadCentralWriteTenant ==
  /\ [](\A t \in Threads : RightDatabase(t))
  /\ [](CompanyFramework["default"] = <<>> /\ CompanyControl["default"] = <<>>)
  /\ [][WrittenByOwner /\ Framework' = Framework /\ Control' = Control]_vars

C9_Witness ==
  \E t \in Threads :
    /\ pc[t] = "returned"
    /\ hist[t].entry \in Tenants \ {call[t].tenant_slug}
    /\ Len(hist[t].created) = 2
    /\ hist[t].attempted # {}
    /\ CompanyFramework[Alias(hist[t].entry)] = <<>>

\* C10: for every model of the template catalog and every binding of a
\* thread, none or a tenant, read and write resolve to the central database.
C10_TemplatesAlwaysCentral ==
  \A t \in Threads, m \in TemplateModels :
    /\ db_for_read(m, tenant[t]) = "default"
    /\ db_for_write(m, tenant[t]) = "default"

C10_Witness ==
  \E t \in Threads :
    /\ tenant[t] \in Tenants
    /\ db_for_read("CompanyControl", tenant[t]) = Alias(tenant[t])
    /\ db_for_read("Control", tenant[t]) = "default"

\* the database alias each tenant is to get
OwnDatabase(s) ==
  IF s = "techcorp" THEN "techcorp_compliance_db" ELSE "democorp_compliance_db"

\* C11: for every tenant-owned model and every bound tenant T, read and write
\* resolve to the same database, T's own "<T>_compliance_db", and different
\* tenants resolve to different databases.
C11_TenantModelsInOwnDatabase ==
  \A t \in Threads, m \in CompanyModels :
    tenant[t] \in Tenants =>
      /\ db_for_read(m, tenant[t]) = OwnDatabase(tenant[t])
      /\ db_for_write(m, tenant[t]) = db_for_read(m, tenant[t])
      /\ \A other \in Tenants \ {tenant[t]} :
           /\ db_for_read(m, other) # db_for_read(m, tenant[t])
           /\ db_for_write(m, other) # db_for_write(m, tenant[t])

C11_Witness ==
  \E t \in Threads :
    /\ tenant[t] = "democorp"
    /\ db_for_read("ControlAssignment", tenant[t]) = "democorp_compliance_db"
    /\ db_for_write("ControlAssignment", tenant[t]) = "democorp_compliance_db"
    /\ db_for_write("ControlAssignment", "techcorp") = "techcorp_compliance_db"

\* the databases a relation may touch under a binding
AllowedSet(bound) ==
  IF bound \in Tenants THEN {"default", OwnDatabase(bound)} ELSE {"default"}

\* C14: allow_relation answers True only if the databases of both objects
\* are in the allowed set, the central database plus the database of the
\* bound tenant; for two objects in the databases of two different tenants it
\* never answers True, whatever is bound.
C14_RelationOnlyInsideAllowedSet ==
  \A t \in Threads, a \in Aliases, b \in Aliases :
    /\ allow_relation(a, b, tenant[t]) = "True"
         => (a \in AllowedSet(tenant[t]) /\ b \in AllowedSet(tenant[t]))
    /\ (a # b /\ a # "default" /\ b # "default")
         => allow_relation(a, b, tenant[t]) # "True"

C14_Witness ==
  \E t \in Threads :
    /\ tenant[t] = "techcorp"
    /\ allow_relation("default", "techcorp_compliance_db", tenant[t]) = "True"
    /\ allow_relation("techcorp_compliance_db", "democorp_compliance_db", tenant[t]) = None

\* C15: within one thread, get() returns the argument of the latest set() that
\* no clear() followed, and none otherwise; clear() succeeds also when nothing
\* is bound and leaves the thread unbound.
C15_GetReturnsLatestSet ==
  \A t \in Threads :
    /\ get_current_tenant(t) = ctx[t].expect
    /\ ctx[t].got = ctx[t].want
    /\ ctx[t].n = 0 => get_current_tenant(t) = None

C15_Witness ==
  \E t \in Threads :
    /\ ctx[t].idle_clear
    /\ ctx[t].n >= 3
    /\ ctx[t].gets > 0
    /\ ctx[t].got = "democorp"

\* C16: a set() or clear() made in one thread never changes what get()
\* returns in another thread: the binding of a thread changes only in a step
\* in which that thread itself calls set() or clear().
C16_BindingIsPerThread ==
  [][\A t \in Threads : ctx'[t].n = ctx[t].n => tenant'[t] = tenant[t]]_vars

C16_Witness ==
  /\ ctx[1].n > 0
  /\ ctx[2].n > 0
  /\ tenant[1] = "techcorp"
  /\ tenant[2] = "democorp"
  /\ ctx[1].got = "techcorp"
  /\ ctx[2].got = "democorp"

\* C20: when the credential endpoint answers every call for a tenant with
\* 200, calls of register_tenant_database_connection for that tenant, also
\* overlapping ones, make one credential call and one registration at most.
C20_OneCredentialCallOneRegistration ==
  \A s \in Tenants :
    service.failed[s] = 0 =>
      /\ service.calls[s] <= 1
      /\ service.stores[s] <= 1

\* the statements the requests in flight have made on tenant-owned tables
Accesses == UNION {req[t].accesses : t \in Threads}

C13_UnregisteredNeverServedCentrally ==
  /\ \A a \in Accesses :
       (a.bound \in Tenants /\ ~a.provisioned) =>
          /\ a.db = OwnDatabase(a.bound)
          /\ a.served = "error"
          /\ a.rows = {}
  /\ \A d \in Aliases : \A r \in Range(ControlAssignment[d]) :
       r.created_in \in Tenants => d = OwnDatabase(r.created_in)

C13_Witness ==
  \E t \in Threads : \E a \in req[t].accesses :
    /\ a.by = "handler"
    /\ a.bound = "techcorp"
    /\ ~a.provisioned
    /\ a.served = "error"
    /\ req[t].outcome = "error"
    /\ "techcorp_compliance_db" \notin databases

\* C17: once the middleware is done with a request, whether the request got
\* a response or get_response left by an exception, the binding of the
\* thread is none.
C17_UnboundAfterRequest ==
  \A t \in Threads :
    (req[t].pc = "idle" /\ req[t].outcome # None) => get_current_tenant(t) = None

\* C18: for a request that names tenant T, the binding of the thread is T
\* from the middleware's set until the response: each statement the request
\* makes on a tenant-owned table is made under T, and no step before the
\* handler (the ISOLATED membership check among them) clears or changes it.
C18_BindingHeldThroughRequest ==
  \A t \in Threads :
    req[t].tenant \in Tenants =>
      /\ \A a \in req[t].accesses : a.bound = req[t].tenant
      /\ req[t].pc \in {"permission", "residency", "isolated", "centralized",
                        "handler", "respond"}
           => get_current_tenant(t) = req[t].tenant

\* C19: a row created while tenant A was bound is never among the rows a
\* read returns while another tenant B is bound.
C19_RowsStayWithTheirTenant ==
  \A a \in Accesses :
    (a.kind = "read" /\ a.bound \in Tenants) =>
      \A r \in a.rows : r.created_in \notin (Tenants \ {a.bound})

C19_Witness ==
  \E a \in Accesses :
    /\ a.kind = "read"
    /\ a.bound = "democorp"
    /\ a.served = "ok"
    /\ a.rows # {}
    /\ \E r \in Range(ControlAssignment["techcorp_compliance_db"]) :
         r.created_in = "techcorp"

\* C21: a call of register_tenant_database_connection that finds the
\* connection of its tenant registered returns the alias at once: it asks
\* the credential service nothing and stores nothing in the registry.
C21_RegisteredIsNoOp ==
  \A t \in Threads :
    reg[t].found =>
      /\ ~reg[t].fetched
      /\ ~reg[t].stored
      /\ reg[t].pc = "idle"
      /\ reg[t].result = OwnDatabase(reg[t].tenant_slug)
      /\ reg[t].result \in databases

C21_Witness ==
  \E t \in Threads :
    /\ reg[t].found
    /\ reg[t].pc = "idle"
    /\ reg[t].tenant_slug = "techcorp"
    /\ service.calls["techcorp"] = 1
    /\ service.stores["techcorp"] = 1

\* C23: a request of a member of a CENTRALIZED tenant reaches its view only
\* when the registration made for it returned a connection; a registration
\* that failed stops the request.
C23_FailedProvisioningStopsTheCaller ==
  \A t \in Threads :
    (/\ req[t].residency = "CENTRALIZED"
     /\ req[t].pc \in {"handler", "respond"}
     /\ req[t].outcome # "denied"
     /\ reg[t].pc = "idle")
      => (~reg[t].failed /\ reg[t].result # None)

\* C24: a request sends a credential request and goes on to store a
\* connection only when the residency of its tenant is ISOLATED; for a
\* CENTRALIZED tenant no credential request is sent.
C24_ProvisionOnlyWhenIsolated ==
  \A t \in Threads :
    (req[t].pc # "idle" /\ reg[t].pc = "store") => req[t].residency = "ISOLATED"

\* C29: when the middleware hands a request to the handler chain, the binding
\* of the thread is the tenant the request names, none when it names no
\* tenant, whatever binding the request found on the thread.
C29_BindingFollowsTheRequest ==
  \A t \in Threads :
    req[t].pc = "permission" => get_current_tenant(t) = req[t].tenant

C29_Witness ==
  \E t \in Threads :
    /\ req[t].pc = "permission"
    /\ req[t].entry = "techcorp"
    /\ req[t].tenant = None
    /\ get_current_tenant(t) = None

\* C27: copy_framework_controls leaves the binding of its thread as it found
\* it: when tenant T was bound on entry, every CompanyControl lookup or
\* create is made under T, and T is bound while the controls are copied and
\* after the function has returned to distribute.
C27_ControlCopyKeepsTheBinding ==
  \A t \in Threads :
    Truthy(hist[t].found) =>
      /\ \A b \in hist[t].ctlBound : b = hist[t].found
      /\ pc[t] \in {"copy", "loop", "create", "controls"}
           => get_current_tenant(t) = hist[t].found

C27_Witness ==
  \E t \in Threads :
    /\ hist[t].found = "techcorp"
    /\ hist[t].ctlBound = {"techcorp"}
    /\ hist[t].attempted # {}
    /\ pc[t] = "loop"
    /\ get_current_tenant(t) = "techcorp"

\* a distribute(T, None) on a tenant that already had copies has returned
\* without a failed framework and without a failed control
CleanLaterRun(t) ==
  /\ pc[t] = "returned"
  /\ call[t].framework_ids.is_none
  /\ hist[t].fwAtEntry # <<>>
  /\ hist[t].failed = {}
  /\ hist[t].ctlFailed = {}

\* C28: distribution is resumable: once a later distribute(T, None) in which
\* no copy failed has returned, every CompanyFramework of T, also one an
\* earlier run created without all of its controls, has exactly one
\* CompanyControl per active template control of its template framework.
C28_LaterRunFillsTheGaps ==
  \A t \in Threads :
    CleanLaterRun(t) =>
      LET frameworks == CompanyFramework[TenantDb(t)]
          controls == CompanyControl[TenantDb(t)]
      IN \A i \in 1..Len(frameworks) :
           \A k \in TemplateControls(frameworks[i].template_framework_id) :
             Cardinality({j \in 1..Len(controls) :
                            controls[j].template_control_id = k}) = 1

\* C26: every database holds at most one ControlAssignment per (control,
\* assigned_to_employee_id); a create for a pair that is already there is
\* refused and leaves the table as it was.
C26_OneAssignmentPerControlAndEmployee ==
  /\ [](\A a \in Aliases : \A i, j \in 1..Len(ControlAssignment[a]) :
          (/\ ControlAssignment[a][i].control = ControlAssignment[a][j].control
           /\ ControlAssignment[a][i].assigned_to_employee_id
                = ControlAssignment[a][j].assigned_to_employee_id) => i = j)
  /\ [][\A t \in Threads :
          (req[t].pc = "handler" /\ req'[t].outcome = "invalid")
            => ControlAssignment' = ControlAssignment]_vars

C26_Witness ==
  \E t \in Threads : \E a \in req[t].accesses :
    /\ req[t].outcome = "invalid"
    /\ a.kind = "write"
    /\ a.served = "refused"
    /\ a.db = "techcorp_compliance_db"
    /\ Len(ControlAssignment["techcorp_compliance_db"]) = 1

\* the post of thread t carries the token the settings are configured with
TokenMatches(t) ==
  /\ internal.INTERNAL_REGISTER_DB_TOKEN # None
  /\ internal.INTERNAL_REGISTER_DB_TOKEN # ""
  /\ internal.post[t].token = internal.INTERNAL_REGISTER_DB_TOKEN

\* C25: the internal migrate and distribute endpoints act only on a post
\* whose X-Internal-Token equals the configured token: a post with a missing
\* or wrong token, or any post while no token is configured, is answered 401
\* having registered nothing and invoked neither migrate nor distribute, and
\* while no token is configured no connection is ever registered and no row
\* ever copied
C25_InternalEndpointsNeedTheToken ==
  /\ \A t \in Threads :
       (internal.post[t].pc # "idle" /\ ~TokenMatches(t)) =>
         /\ internal.post[t].pc = "done"
         /\ internal.post[t].status = 401
         /\ ~internal.post[t].stored
         /\ ~internal.post[t].invoked
         /\ pc[t] = "idle"
  /\ \A t \in Threads :
       internal.post[t].status = 401 => ~TokenMatches(t)
  /\ (internal.INTERNAL_REGISTER_DB_TOKEN \in {None, ""}) =>
       /\ databases = {"default"}
       /\ \A a \in Aliases : CompanyFramework[a] = <<>> /\ CompanyControl[a] = <<>>

\* a post that carries the very value of the setting is refused, because the
\* setting is empty
C25_Witness ==
  /\ internal.INTERNAL_REGISTER_DB_TOKEN = ""
  /\ internal.post[1].pc = "done"
  /\ internal.post[1].view = "distribute"
  /\ internal.post[1].token = ""
  /\ internal.post[1].status = 401
  /\ budget.posts = MaxPosts

\* C30: whenever the distribute endpoint invokes distribute for a tenant
\* slug, the database the router resolves for that tenant, the alias
\* <tenant_slug>_compliance_db, is the connection the endpoint has just
\* registered, whatever connection name the tenant service returned
C30_DistributeRunsOnTheRegisteredAlias ==
  \A t \in Threads :
    internal.post[t].pc = "distributing" =>
      /\ internal.post[t].connection_name = Alias(internal.post[t].tenant_slug)
      /\ Alias(internal.post[t].tenant_slug) \in databases

\* C22: a credential call that fails (an answer other than 200, an exception,
\* a field missing from the credentials) adds no entry to the registry and
\* changes none, in the lazy registration of a request and in the internal
\* migrate and distribute endpoints alike: the step on which a call fails
\* leaves the registry as it was, and a failed call has stored nothing
C22_FailedCredentialsLeaveTheRegistry ==
  /\ [](\A t \in Threads :
          /\ reg[t].failed => (~reg[t].stored /\ reg[t].result = None)
          /\ internal.post[t].failed =>
               (~internal.post[t].stored /\ internal.post[t].status \in {400, 500}))
  /\ [][(\E t \in Threads :
           \/ reg'[t].failed /\ ~reg[t].failed
           \/ internal'.post[t].failed /\ ~internal.post[t].failed)
         => databases' = databases]_vars

\* a lazy registration failed, then a distribute post failed on credentials
\* with a field missing, and the tenant is still unregistered
C22_Witness ==
  /\ reg[1].failed
  /\ reg[1].fetched
  /\ internal.post[1].failed
  /\ internal.post[1].view = "distribute"
  /\ internal.post[1].status = 500
  /\ Alias(reg[1].tenant_slug) \notin databases

====
